---- MODULE Spec2Model ----
(***************************************************************************)
(* Game-state model and move engine of the terminal solitaire              *)
(* (src/src/main.rs).  The table is kept exactly as the program keeps it:  *)
(* cards are bytes (suit in the high nibble, rank in the low nibble), the  *)
(* reserve is a set of linear card indices (the set bits of the u64), and  *)
(* every column's length and hidden count share one byte of slots_lens.    *)
(***************************************************************************)
EXTENDS Integers, Sequences, FiniteSets, TLC

\* ------------------------------------------------------------------------
\* Program constants
\* ------------------------------------------------------------------------
N == 7

MAX_HEIGHT == N - 1 + 13

\* ------------------------------------------------------------------------
\* Bounds of the model (inputs the mouse can produce)
\* ------------------------------------------------------------------------
\* largest tableau row a click is mapped to (MAX_HEIGHT is past the array)
MaxPickRow == 19

\* largest reserve position a click is mapped to
MaxPickDeck == 12

\* number of moves explored from each starting position
MaxMoves == 1

\* ------------------------------------------------------------------------
\* u8 arithmetic helpers
\* ------------------------------------------------------------------------
Bit(x, i) == (x \div (2 ^ i)) % 2

\* a | b on u8
BitOr8(a, b) ==
    LET B(i) == IF Bit(a, i) = 1 \/ Bit(b, i) = 1 THEN 2 ^ i ELSE 0
    IN  B(0) + B(1) + B(2) + B(3) + B(4) + B(5) + B(6) + B(7)

\* x << 4 on u8 (bits shifted out are dropped)
Shl4(x) == (x * 16) % 256

\* slot & 0x0f
LowNibble(x) == x % 16

\* slot >> 4
HighNibble(x) == x \div 16

\* ------------------------------------------------------------------------
\* Card codec (impl Card)
\* ------------------------------------------------------------------------
rank(c) == c % 16

suit(c) == c \div 16

is_red(c) == ((c \div 16) % 2) = 1

\* the assert! of Card::from_suit_rank
from_suit_rank_ok(s, r) == s < 4 /\ r <= 13

from_suit_rank(s, r) == BitOr8(Shl4(s), r)

from_index_ok(i) == from_suit_rank_ok(i \div 13, (i % 13) + 1)

from_index(i) == from_suit_rank(i \div 13, (i % 13) + 1)

\* to_ind with the nibble stride in place of 13
to_ind_stride16(c) == (suit(c) * 16) + rank(c) - 1

to_ind(c) == (suit(c) * 13) + rank(c) - 1

\* ------------------------------------------------------------------------
\* Selections (enum Highlight)
\* ------------------------------------------------------------------------
None == [k |-> "None", a |-> 0, b |-> 0]

Target(i) == [k |-> "Target", a |-> i, b |-> 0]

Deck(i) == [k |-> "Deck", a |-> i, b |-> 0]

Slot(col, row) == [k |-> "Slot", a |-> col, b |-> row]

\* the selections GameState::coord_to_selection hands to the engine:
\* nothing, a foundation, a reserve position, a tableau cell, and one
\* cell right of the last column
Picks ==
    {None}
    \cup {Target(i) : i \in 0..3}
    \cup {Deck(i) : i \in 0..MaxPickDeck}
    \cup {Slot(c, r) : c \in 0..(N - 1), r \in 0..MaxPickRow}
    \cup {Slot(N, 0)}

\* ------------------------------------------------------------------------
\* State
\* ------------------------------------------------------------------------
\* deck, targets, slots, slots_lens: the fields of SolitareState
\* selected: GameState::selected
\* picked: new_selection of the event handled last
\* pc: "run" in the event loop, "quit" after q, "panic" after a panic,
\*   "fault" after a panic!() or unreachable!() branch of try_move
\* overflow_checks: whether the build checks integer overflow: "on" (it
\*   panics), "off" (it wraps), or "either" as long as no arithmetic has
\*   overflowed, since both builds then behave alike
\* moves: number of moves performed so far in this exploration
\* call: a call of a Card function on its own, with its result (NoCall
\*   while the game runs)
VARIABLES deck, targets, slots, slots_lens, selected, picked, pc,
          overflow_checks, moves, call

vars == <<deck, targets, slots, slots_lens, selected, picked, pc,
          overflow_checks, moves, call>>

NoCall ==
    [fn |-> "none", a |-> 0, b |-> 0, done |-> FALSE, panicked |-> FALSE,
     card |-> 0]

Cols == 0..(N - 1)

Rows == 0..(MAX_HEIGHT - 1)

Suits == 0..3

\* the program state as one value, with the panic flag of the running handler
Game ==
    [deck |-> deck, targets |-> targets, slots |-> slots,
     slots_lens |-> slots_lens, selected |-> selected, panicked |-> FALSE,
     wrapped |-> FALSE, fault |-> FALSE]

Panic(g) == [g EXCEPT !.panicked = TRUE]

\* the panic of a panic!() or unreachable!() branch of try_move
Fault(g) == [g EXCEPT !.panicked = TRUE, !.fault = TRUE]

\* an arithmetic overflow the build did not check
Wrap(g) == [g EXCEPT !.wrapped = TRUE]

\* is_selection_valid taking every row below the length for a source,
\* face-down rows included
is_selection_valid_any_row(g, selection) ==
    CASE selection.k = "None" -> <<FALSE, FALSE>>
      [] selection.k = "Target" ->
            IF selection.a < 4
            THEN <<g.targets[selection.a] > 0, TRUE>>
            ELSE <<FALSE, FALSE>>
      [] selection.k = "Deck" ->
            <<selection.a < Cardinality(g.deck), FALSE>>
      [] selection.k = "Slot" ->
            IF selection.a < N
            THEN <<selection.b < LowNibble(g.slots_lens[selection.a]), TRUE>>
            ELSE <<FALSE, FALSE>>

\* ------------------------------------------------------------------------
\* GameState::is_selection_valid: <<valid as source, valid as destination>>
\* ------------------------------------------------------------------------
is_selection_valid(g, selection) ==
    CASE selection.k = "None" -> <<FALSE, FALSE>>
      [] selection.k = "Target" ->
            IF selection.a < 4
            THEN <<g.targets[selection.a] > 0, TRUE>>
            ELSE <<FALSE, FALSE>>
      [] selection.k = "Deck" ->
            <<selection.a < Cardinality(g.deck), FALSE>>
      [] selection.k = "Slot" ->
            IF selection.a < N
            THEN LET slot == g.slots_lens[selection.a]
                     n_cards == LowNibble(slot)
                     n_hidden == HighNibble(slot)
                 IN  <<n_hidden <= selection.b /\ selection.b < n_cards, TRUE>>
            ELSE <<FALSE, FALSE>>

\* ------------------------------------------------------------------------
\* GameState::try_move
\* ------------------------------------------------------------------------
\* u64::trailing_zeros of the reserve (64 when no bit is set)
trailing_zeros(d) ==
    IF d = {} THEN 64 ELSE CHOOSE x \in d : \A y \in d : x <= y

\* the loop of try_move over the reserve: n more rounds of
\* skip = trailing_zeros + 1; deck >>= skip; card_ind += skip
RECURSIVE deck_walk(_, _, _)
deck_walk(d, card_ind, n) ==
    IF n = 0
    THEN card_ind
    ELSE LET skip == trailing_zeros(d) + 1
         IN  deck_walk({x - skip : x \in {y \in d : y >= skip}},
                       card_ind + skip, n - 1)

\* the walk over the reserve stopped after its first round, whatever i
deck_card_ind_first(d, i) == deck_walk(d, 0, 1) - 1

\* linear index of the card Highlight::Deck(i) names
deck_card_ind(d, i) == deck_walk(d, 0, i + 1) - 1

\* the first match of try_move: the moving card, the multiple flag, and
\* whether resolving the card panics (no selection, the assert! of
\* from_suit_rank, a row past the array)
moving_card(g) ==
    LET sel == g.selected
    IN  CASE sel.k = "None" ->
                [panicked |-> TRUE, card |-> 0, multiple |-> FALSE]
          [] sel.k = "Target" ->
                LET r == g.targets[sel.a]
                IN  [panicked |-> ~from_suit_rank_ok(sel.a, r),
                     card |-> from_suit_rank(sel.a, r),
                     multiple |-> FALSE]
          [] sel.k = "Deck" ->
                LET card_ind == deck_card_ind(g.deck, sel.a)
                IN  [panicked |-> ~from_index_ok(card_ind),
                     card |-> from_index(card_ind),
                     multiple |-> FALSE]
          [] sel.k = "Slot" ->
                LET slot_height == LowNibble(g.slots_lens[sel.a])
                IN  [panicked |-> sel.b >= MAX_HEIGHT,
                     card |-> IF sel.b < MAX_HEIGHT
                              THEN g.slots[sel.a][sel.b] ELSE 0,
                     multiple |-> sel.b + 1 < slot_height]

\* n_cards = (*slot & 0x0f) - 1 underflows
take_one_underflows(slot) == LowNibble(slot) = 0

\* the packed byte of a column after its top card left (single card)
take_one(slot) ==
    LET n_cards == (LowNibble(slot) + 255) % 256
        n_hidden == HighNibble(slot)
        h == IF n_hidden > 0 /\ n_hidden = n_cards
             THEN n_hidden - 1 ELSE n_hidden
    IN  BitOr8(Shl4(h), n_cards)

\* the packed byte of a column after the run starting at row left
take_run(slot, row) ==
    LET n_cards == LowNibble(slot)
        n_moved == n_cards - row
        new_n_cards == n_cards - n_moved
        n_hidden == HighNibble(slot)
        h == IF n_hidden > 0 /\ n_hidden = new_n_cards
             THEN n_hidden - 1 ELSE n_hidden
    IN  BitOr8(Shl4(h), new_n_cards)

\* the packed byte of a column after k cards were put on it
put_on(slot, k) == BitOr8(Shl4(HighNibble(slot)), LowNibble(slot) + k)

\* the copy loop of a run move, from round i on: for i in 0..n_cards
\* slots[col][slot_len + i] = slots[from_col][row + i];
\* an index past the array panics and keeps what was written before
RECURSIVE copy_run(_, _, _, _, _, _, _)
copy_run(sl, col, from_col, slot_len, row, i, n_cards) ==
    IF i >= n_cards
    THEN [slots |-> sl, panicked |-> FALSE]
    ELSE IF row + i >= MAX_HEIGHT \/ slot_len + i >= MAX_HEIGHT
         THEN [slots |-> sl, panicked |-> TRUE]
         ELSE copy_run([sl EXCEPT ![col][slot_len + i] = sl[from_col][row + i]],
                       col, from_col, slot_len, row, i + 1, n_cards)

\* the top card leaves column col: slots_lens[col] is rewritten, unless
\* the length underflows and the build checks it
leave_slot(g, col, oc) ==
    LET g1 == [g EXCEPT !.slots_lens[col] = take_one(@), !.selected = None]
    IN  IF take_one_underflows(g.slots_lens[col])
        THEN IF oc THEN Panic(g) ELSE Wrap(g1)
        ELSE g1

\* the card leaves its source after it was put on a foundation
leave_for_target(g, card, oc) ==
    LET sel == g.selected
    IN  CASE sel.k = "Deck" ->
                [g EXCEPT !.deck = @ \ {to_ind(card)}, !.selected = None]
          [] sel.k = "Slot" ->
                leave_slot(g, sel.a, oc)
          [] OTHER -> Fault(g)

\* destination Highlight::Target(_) without the test of multiple: a run
\* whose bottom card fits is taken for a single card
move_to_target_any_unit(g, card, multiple, selection, oc) ==
    LET s == suit(card)
        top == g.targets[s]
    IN  IF rank(card) # top + 1
        THEN [g EXCEPT !.selected = selection]
        ELSE leave_for_target([g EXCEPT !.targets[s] = @ + 1], card, oc)

\* destination Highlight::Target(_)
move_to_target(g, card, multiple, selection, oc) ==
    LET s == suit(card)
        top == g.targets[s]
        g0 == IF top = 255 THEN Wrap(g) ELSE g
    IN  IF top = 255 /\ oc
        THEN Panic(g)
        ELSE IF rank(card) # (top + 1) % 256 \/ multiple
             THEN [g0 EXCEPT !.selected = selection]
             ELSE leave_for_target([g0 EXCEPT !.targets[s] = @ + 1], card, oc)

\* the move is legal on column col
legal_on_slot(g, card, col) ==
    LET slot_len == LowNibble(g.slots_lens[col])
    IN  IF slot_len = 0
        THEN rank(card) = 13
        ELSE LET target_card == g.slots[col][slot_len - 1]
             IN  /\ rank(card) + 1 = rank(target_card)
                 /\ is_red(card) # is_red(target_card)

\* the unit leaves its source after a legal move to column col;
\* slot is the packed byte of col read before the move
leave_for_slot(g, card, multiple, col, slot, oc) ==
    LET sel == g.selected
    IN  CASE sel.k = "Target" ->
                IF g.targets[sel.a] = 0
                THEN IF oc
                     THEN Panic(g)
                     ELSE Wrap([g EXCEPT !.targets[sel.a] = 255,
                                         !.selected = None])
                ELSE [g EXCEPT !.targets[sel.a] = @ - 1, !.selected = None]
          [] sel.k = "Deck" ->
                [g EXCEPT !.deck = @ \ {to_ind(card)}, !.selected = None]
          [] sel.k = "Slot" /\ ~multiple -> leave_slot(g, sel.a, oc)
          [] sel.k = "Slot" /\ multiple ->
                LET n_cards == LowNibble(g.slots_lens[sel.a])
                    n_moved == n_cards - sel.b
                    g2 == [g EXCEPT !.slots_lens[sel.a] = take_run(@, sel.b)]
                    cp == copy_run(g2.slots, col, sel.a, LowNibble(slot),
                                   sel.b, 0, n_cards)
                IN  IF cp.panicked
                    THEN Panic([g2 EXCEPT !.slots = cp.slots])
                    ELSE [g2 EXCEPT !.slots = cp.slots,
                                    !.slots_lens[col] = put_on(slot, n_moved),
                                    !.selected = None]
          [] OTHER -> Fault(g)

\* destination Highlight::Slot(col, _)
move_to_slot(g, card, multiple, selection, oc) ==
    LET col == selection.a
        slot == g.slots_lens[col]
        slot_len == LowNibble(slot)
    IN  IF legal_on_slot(g, card, col)
        THEN LET g1 == IF multiple
                       THEN g
                       ELSE [g EXCEPT !.slots[col][slot_len] = card,
                                      !.slots_lens[col] = put_on(slot, 1)]
             IN  leave_for_slot(g1, card, multiple, col, slot, oc)
        ELSE [g EXCEPT !.selected = selection]

try_move(g, selection, oc) ==
    LET m == moving_card(g)
    IN  IF g.selected.k = "None"
        THEN Fault(g)
        ELSE IF m.panicked
        THEN Panic(g)
        ELSE CASE selection.k = "None" -> Fault(g)
               [] selection.k = "Target" ->
                     move_to_target(g, m.card, m.multiple, selection, oc)
               [] selection.k = "Deck" -> [g EXCEPT !.selected = selection]
               [] selection.k = "Slot" ->
                     move_to_slot(g, m.card, m.multiple, selection, oc)

\* ------------------------------------------------------------------------
\* SolitareState::render: the assert! of from_suit_rank on a foundation top
\* ------------------------------------------------------------------------
render_ok(g) ==
    \A s \in Suits : g.targets[s] = 0 \/ from_suit_rank_ok(s, g.targets[s])

\* the handler prints the table before it returns
render(g) == IF g.panicked \/ render_ok(g) THEN g ELSE Panic(g)

\* ------------------------------------------------------------------------
\* GameState::run: the handlers of the event loop
\* ------------------------------------------------------------------------
\* the handler with the arm of try_move tried first, before the two arms
\* for no selection
on_mouse_move_first(g, new_selection, oc) ==
    LET valid == is_selection_valid(g, new_selection)
        valid_src == valid[1]
        valid_dst == valid[2]
    IN  render(
          IF valid_dst
          THEN try_move(g, new_selection, oc)
          ELSE IF g.selected.k = "None"
               THEN IF valid_src
                    THEN [g EXCEPT !.selected = new_selection] ELSE g
               ELSE IF ~valid_src
                    THEN [g EXCEPT !.selected = None]
                    ELSE [g EXCEPT !.selected = new_selection])

\* left mouse button down on new_selection
on_mouse(g, new_selection, oc) ==
    LET valid == is_selection_valid(g, new_selection)
        valid_src == valid[1]
        valid_dst == valid[2]
    IN  render(
          IF g.selected.k = "None"
          THEN IF valid_src THEN [g EXCEPT !.selected = new_selection] ELSE g
          ELSE IF valid_dst
               THEN try_move(g, new_selection, oc)
               ELSE IF ~valid_src
                    THEN [g EXCEPT !.selected = None]
                    ELSE [g EXCEPT !.selected = new_selection])

\* Esc redrawing the table without dropping the selection
on_esc_keep_selected(g) == render(g)

\* Esc
on_esc(g) == render([g EXCEPT !.selected = None])

\* ------------------------------------------------------------------------
\* SolitareState::new on a shuffled deck d (cards d[0] .. d[51])
\* ------------------------------------------------------------------------
\* value of cur_card when slots[j][i] is dealt (rows i = 0.., columns j = i..)
deal_pos(j, i) == (i * N) - ((i * (i - 1)) \div 2) + (j - i)

\* SolitareState::new with every dealt card counted as hidden
new_state_all_hidden(d) ==
    [deck |-> {to_ind(d[x]) : x \in ((N * (N + 1)) \div 2)..51},
     targets |-> [s \in Suits |-> 0],
     slots |-> [j \in Cols |-> [i \in Rows |->
                   IF i <= j THEN d[deal_pos(j, i)] ELSE 0]],
     slots_lens |-> [i \in Cols |-> BitOr8(Shl4(i + 1), i + 1)],
     selected |-> None,
     panicked |-> FALSE,
     wrapped |-> FALSE,
     fault |-> FALSE]

new_state(d) ==
    [deck |-> {to_ind(d[x]) : x \in ((N * (N + 1)) \div 2)..51},
     targets |-> [s \in Suits |-> 0],
     slots |-> [j \in Cols |-> [i \in Rows |->
                   IF i <= j THEN d[deal_pos(j, i)] ELSE 0]],
     slots_lens |-> [i \in Cols |-> BitOr8(Shl4(i), i + 1)],
     selected |-> None,
     panicked |-> FALSE,
     wrapped |-> FALSE,
     fault |-> FALSE]

\* shuffled_deck: the cards in canonical order, permuted by perm
shuffled_deck(perm) == [x \in 0..51 |-> from_index(perm[x + 1])]

\* ------------------------------------------------------------------------
\* Starting positions
\* ------------------------------------------------------------------------
\* the permutations the shuffle is taken to produce, as card indices
Shuffles ==
    { <<26, 1, 3, 7, 15, 23, 45, 38, 5, 11, 17, 27, 46, 40, 13, 19,
        36, 47, 12, 21, 39, 48, 50, 44, 49, 9, 51, 35, 24, 10, 22, 8,
        20, 6, 18, 4, 16, 2, 14, 0, 25, 28, 29, 30, 31, 32, 33, 34,
        37, 41, 42, 43>> }

\* a line of play from the dealt table: the ace of column 0 goes to its
\* foundation, then the reserve cards Q, J, 10 .. 2 are put one by one on
\* the king of column 3
Line ==
    << Slot(0, 0), Target(2), Deck(11), Slot(3, 0), Deck(5),
       Slot(3, 0), Deck(9), Slot(3, 0), Deck(4), Slot(3, 0), Deck(7),
       Slot(3, 0), Deck(3), Slot(3, 0), Deck(5), Slot(3, 0), Deck(2),
       Slot(3, 0), Deck(3), Slot(3, 0), Deck(1), Slot(3, 0), Deck(1),
       Slot(3, 0) >>

\* the positions of Line the exploration starts from (clicks played):
\* the dealt table, the table with column 0 emptied, and the table with
\* 15 cards on column 3
Positions == {0, 2, 24}

\* the game after the clicks of script were handled one by one (a panic
\* ends the program)
RECURSIVE play(_, _, _)
play(g, script, oc) ==
    IF script = <<>>
    THEN g
    ELSE LET h == on_mouse(g, Head(script), oc)
         IN  IF h.panicked THEN h ELSE play(h, Tail(script), oc)

\* the table part of a game value
table(g) == <<g.deck, g.targets, g.slots, g.slots_lens>>

Init ==
    \E perm \in Shuffles, k \in Positions :
        LET g == play(new_state(shuffled_deck(perm)), SubSeq(Line, 1, k),
                      FALSE)
        IN  /\ ~g.panicked /\ ~g.wrapped
            /\ deck = g.deck
            /\ targets = g.targets
            /\ slots = g.slots
            /\ slots_lens = g.slots_lens
            /\ selected = g.selected
            /\ picked = None
            /\ pc = "run"
            /\ overflow_checks = "either"
            /\ moves = 0
            /\ call = NoCall

\* the handler's result becomes the program state
Becomes(g, sel) ==
    /\ table(g) # table(Game) => moves < MaxMoves
    /\ deck' = g.deck
    /\ targets' = g.targets
    /\ slots' = g.slots
    /\ slots_lens' = g.slots_lens
    /\ selected' = g.selected
    /\ picked' = sel
    /\ pc' = IF g.fault THEN "fault" ELSE IF g.panicked THEN "panic" ELSE "run"
    /\ moves' = IF table(g) # table(Game) THEN moves + 1 ELSE moves
    /\ call' = call

\* left mouse button down.  Where no arithmetic overflows, both builds
\* do the same; where it does, the build that wraps goes on and the build
\* that checks panics, and the build is known from then on (a build known
\* to check has panicked, so a running program never has overflow_checks
\* = "on")
MouseDown ==
    /\ pc = "run"
    /\ \E new_selection \in Picks :
          LET g == on_mouse(Game, new_selection, FALSE)
          IN  \/ /\ Becomes(g, new_selection)
                 /\ overflow_checks' =
                       IF g.wrapped THEN "off" ELSE overflow_checks
              \/ /\ g.wrapped
                 /\ overflow_checks = "either"
                 /\ Becomes(on_mouse(Game, new_selection, TRUE),
                            new_selection)
                 /\ overflow_checks' = "on"

KeyEsc ==
    /\ pc = "run"
    /\ Becomes(on_esc(Game), None)
    /\ UNCHANGED overflow_checks

KeyQ ==
    /\ pc = "run"
    /\ pc' = "quit"
    /\ UNCHANGED <<deck, targets, slots, slots_lens, selected, picked,
                   overflow_checks, moves, call>>

Next == MouseDown \/ KeyEsc \/ KeyQ

Spec == Init /\ [][Next]_vars

\* ------------------------------------------------------------------------
\* Vocabulary of the claims
\* ------------------------------------------------------------------------
\* the table state
Table == <<deck, targets, slots, slots_lens>>

\* length and hidden_count of column c, as the program reads them
length(c) == LowNibble(slots_lens[c])

hidden_count(c) == HighNibble(slots_lens[c])

\* the same two readings after the step
length_after(c) == LowNibble(slots_lens'[c])

hidden_count_after(c) == HighNibble(slots_lens'[c])

\* a byte that is one of the 52 cards
IsCard(b) == suit(b) < 4 /\ rank(b) >= 1 /\ rank(b) <= 13

\* the step handles a Pick (or a Cancel, which behaves as a Pick of nothing)
\* and the program runs on
Handled == pc = "run" /\ pc' = "run"

\* the engine is Armed and the step handles Pick(picked')
ArmedPick == Handled /\ selected # None

\* the step performs a move and returns to Idle
Succeeds == Handled /\ Table' # Table /\ selected' = None

\* the moving card and the multi flag of the armed selection
MovingCard == moving_card(Game).card

Multi == moving_card(Game).multiple

\* source and destination validity of a selection (spec.md 4.3)
ValidSource(s) ==
    CASE s.k = "Target" -> s.a < 4 /\ targets[s.a] > 0
      [] s.k = "Deck" -> s.a < Cardinality(deck)
      [] s.k = "Slot" ->
            s.a < N /\ hidden_count(s.a) <= s.b /\ s.b < length(s.a)
      [] OTHER -> FALSE

ValidDestination(s) ==
    CASE s.k = "Target" -> s.a < 4
      [] s.k = "Slot" -> s.a < N
      [] OTHER -> FALSE

\* the rule for a tableau destination: a king on an empty column, or one
\* rank below the top card and of the other colour
LegalOnColumn(card, c) ==
    \/ length(c) = 0 /\ rank(card) = 13
    \/ /\ length(c) > 0
       /\ rank(card) + 1 = rank(slots[c][length(c) - 1])
       /\ is_red(card) # is_red(slots[c][length(c) - 1])

\* the rule for a foundation destination, the card going to the foundation
\* of its own suit
LegalOnOwnFoundation(card) ==
    ~Multi /\ suit(card) < 4 /\ rank(card) = targets[suit(card)] + 1

\* the move from the armed selection to dst is legal
LegalMove(dst) ==
    CASE dst.k = "Target" -> LegalOnOwnFoundation(MovingCard)
      [] dst.k = "Slot" -> LegalOnColumn(MovingCard, dst.a)
      [] OTHER -> FALSE

\* ------------------------------------------------------------------------
\* Claims
\* ------------------------------------------------------------------------
\* number of places that hold the card of linear index i: the reserve, the
\* run 1..=targets[suit] of its foundation, the rows below length of a column
CardPlaces(i) ==
    (IF i \in deck THEN 1 ELSE 0)
    + (IF (i % 13) + 1 <= targets[i \div 13] THEN 1 ELSE 0)
    + Cardinality({cr \in Cols \X Rows :
                      /\ cr[2] < length(cr[1])
                      /\ slots[cr[1]][cr[2]] = from_index(i)})

\* C1: conservation: while the program runs, each of the 52 cards is in
\* exactly one place (reserve, foundation run, rows below length of a
\* column) and every row below a column's length holds a card.
C1_Conservation ==
    pc = "run" =>
        /\ \A i \in 0..51 : CardPlaces(i) = 1
        /\ \A c \in Cols, r \in Rows : r < length(c) => IsCard(slots[c][r])

\* C2: while the program runs, hidden_count <= length in every column.
C2_HiddenWithinLength ==
    pc = "run" => \A c \in Cols : hidden_count(c) <= length(c)

\* C3: Armed(src), Pick(dst): a legal move to a valid destination is
\* performed and the engine is Idle; otherwise the engine is Armed(dst) if
\* dst is a valid source, and Idle if it is not.
C3_ArmedPick ==
    [][ArmedPick =>
          IF ValidDestination(picked') /\ LegalMove(picked')
          THEN Succeeds
          ELSE IF ValidSource(picked')
               THEN selected' = picked'
               ELSE selected' = None]_vars

\* C4: a move to Foundation(s) succeeds iff the unit is a single card of
\* suit s whose rank is foundations[s] + 1.
C4_FoundationMove ==
    [][ArmedPick /\ picked'.k = "Target" =>
          (Succeeds <=>
              /\ ~Multi
              /\ suit(MovingCard) = picked'.a
              /\ rank(MovingCard) = targets[picked'.a] + 1)]_vars

\* C5: a move to TableauCell(c, _) succeeds iff column c is empty and the
\* moving card is a king, or the moving card is one rank below c's top card
\* and of the other colour; the row picked plays no part.
C5_ColumnMove ==
    [][pc = "run" /\ pc' # "quit" /\ selected # None
         /\ picked'.k = "Slot" /\ picked'.a < N =>
          (Succeeds <=> LegalOnColumn(MovingCard, picked'.a))]_vars

\* number of cards of the moving unit
UnitSize == IF Multi THEN length(selected.a) - selected.b ELSE 1

\* C6: a move that puts k cards on a column of length L, L + k <= 19,
\* leaves the column with length L + k and its hidden_count unchanged.
C6_ColumnHoldsNineteen ==
    [][Succeeds /\ selected # None /\ picked'.k = "Slot"
         /\ length(picked'.a) + UnitSize <= MAX_HEIGHT =>
          /\ length_after(picked'.a) = length(picked'.a) + UnitSize
          /\ hidden_count_after(picked'.a) = hidden_count(picked'.a)]_vars

\* C7: a move out of a tableau column starts at a face-up row of it:
\* hidden_count <= row < length before the move.
C7_NoFaceDownMove ==
    [][Succeeds /\ selected.k = "Slot" =>
          /\ hidden_count(selected.a) <= selected.b
          /\ selected.b < length(selected.a)]_vars

\* C8: every foundation counter is in 0..13.
C8_FoundationRange == \A s \in Suits : targets[s] >= 0 /\ targets[s] <= 13

\* C9: one event changes at most one foundation counter, by +1 or -1, and
\* no move goes from a foundation to a foundation.
C9_FoundationStep ==
    [][pc = "run" =>
          /\ Cardinality({s \in Suits : targets'[s] # targets[s]}) <= 1
          /\ \A s \in Suits :
                targets'[s] # targets[s] =>
                    targets'[s] - targets[s] \in {1, -1}
          /\ ~(selected.k = "Target" /\ picked'.k = "Target"
               /\ Table' # Table)]_vars

\* C10: a move that takes cards off column c and leaves it with length L'
\* lowers hidden_count(c) by one if it was positive and equal to L', and
\* leaves it unchanged otherwise.
C10_Reveal ==
    [][Succeeds /\ selected.k = "Slot" =>
          hidden_count_after(selected.a) =
              IF hidden_count(selected.a) > 0
                   /\ hidden_count(selected.a) = length_after(selected.a)
              THEN hidden_count(selected.a) - 1
              ELSE hidden_count(selected.a)]_vars

\* a run is armed: a tableau row below the top card of its column
RunArmed == selected.k = "Slot" /\ selected.b + 1 < length(selected.a)

\* C11: a run (source row r with r + 1 < length) picked onto a foundation
\* is rejected whatever its bottom card: the program runs on, performs no
\* move and leaves the table as it was.
C11_RunToFoundationRejected ==
    [][pc = "run" /\ pc' # "quit" /\ RunArmed /\ picked'.k = "Target" =>
          pc' = "run" /\ Table' = Table /\ ~Succeeds]_vars

\* a face-up run is armed whose bottom card is the next card of its
\* foundation, and the pick of that foundation is refused
C11_Witness ==
    /\ pc = "run" /\ RunArmed /\ ValidSource(selected)
    /\ IsCard(MovingCard)
    /\ rank(MovingCard) = targets[suit(MovingCard)] + 1
    /\ ENABLED (MouseDown /\ picked' = Target(suit(MovingCard))
                  /\ Table' = Table /\ selected' = picked')

\* ------------------------------------------------------------------------
\* The deal: shuffle, shuffled_deck and SolitareState::new on their own
\* ------------------------------------------------------------------------
\* positions of the shuffle whose random choice is explored
SwapAt == {0, 6, 13, 27, 28}

\* largest distance j - i the random choice at such a position takes
MaxSwap == 12

\* largest distance j - i the random choice takes at the other positions
MaxRoll == 2

\* the deck before it is shuffled: Card::from_index(i) at position i
sorted_deck == [i \in 0..51 |-> from_index(i)]

\* the values j = rand::random_range(i..data.len()) of one shuffle, one
\* for each round i (i <= j <= 51)
Rolls ==
    { [i \in 0..51 |->
          LET j == IF i = a THEN i + m ELSE i + k
          IN  IF j <= 51 THEN j ELSE 51] :
      a \in SwapAt, m \in 0..MaxSwap, k \in 0..MaxRoll }

\* shuffle from round i on: data.swap(i, j)
RECURSIVE shuffle_from(_, _, _)
shuffle_from(data, i, js) ==
    IF i >= 52
    THEN data
    ELSE shuffle_from([data EXCEPT ![i] = data[js[i]], ![js[i]] = data[i]],
                      i + 1, js)

shuffle(data, js) == shuffle_from(data, 0, js)

\* SolitareState::new with the random choices js: the fields become those
\* of the dealt table
NewWith(js) ==
    LET g == new_state(shuffle(sorted_deck, js))
    IN  /\ pc = "new"
        /\ deck' = g.deck
        /\ targets' = g.targets
        /\ slots' = g.slots
        /\ slots_lens' = g.slots_lens
        /\ pc' = "dealt"
        /\ UNCHANGED <<selected, picked, overflow_checks, moves, call>>

New == \E js \in Rolls : NewWith(js)

\* before the construction: the zeroed struct of SolitareState::new
InitNew ==
    /\ deck = {}
    /\ targets = [s \in Suits |-> 0]
    /\ slots = [j \in Cols |-> [i \in Rows |-> 0]]
    /\ slots_lens = [i \in Cols |-> 0]
    /\ selected = None
    /\ picked = None
    /\ pc = "new"
    /\ overflow_checks = "either"
    /\ moves = 0
    /\ call = NoCall

SpecNew == InitNew /\ [][New]_vars

\* the cards of the columns after the step, rows below the length
TableauAfter ==
    {slots'[c][r] : <<c, r>> \in {cr \in Cols \X Rows : cr[2] < length_after(cr[1])}}

\* C12: after SolitareState::new, for every outcome of the shuffle: the
\* foundations are 0, column i has length i + 1 and hidden count i, the
\* columns hold the first 28 cards of the shuffled sequence and the reserve
\* the other 24, reserve and columns count 52 cards, and each of the 52
\* cards is there exactly once.
C12_Deal ==
    [][\A js \in Rolls :
          NewWith(js) =>
              LET d == shuffle(sorted_deck, js)
              IN  /\ \A s \in Suits : targets'[s] = 0
                  /\ \A i \in Cols :
                        /\ length_after(i) = i + 1
                        /\ hidden_count_after(i) = i
                  /\ TableauAfter = {d[x] : x \in 0..27}
                  /\ deck' = {to_ind(d[x]) : x \in 28..51}
                  /\ Cardinality(deck') = 24
                  /\ Cardinality(TableauAfter) = 28
                  /\ \A i \in 0..51 :
                        (i \in deck') # (from_index(i) \in TableauAfter)]_vars

\* a table dealt from a deck the shuffle has changed: the first card dealt
\* is not the first card of the sorted deck, and a card of the sorted
\* deck's first 28 is in the reserve
C12_Witness ==
    /\ pc = "dealt"
    /\ slots[0][0] # from_index(0)
    /\ \E i \in 0..27 : i \in deck

\* C13: in Idle, Pick(s) arms s if and only if s is a valid source, and
\* otherwise the engine stays Idle; the table is unchanged either way.
C13_IdlePick ==
    [][pc = "run" /\ pc' # "quit" /\ selected = None =>
          /\ pc' = "run"
          /\ Table' = Table
          /\ selected' = IF ValidSource(picked') THEN picked' ELSE None]_vars

\* the engine is armed on the cell picked last, a face-up tableau card,
\* before any move was made
C13_Witness ==
    /\ pc = "run" /\ moves = 0
    /\ selected = picked /\ selected.k = "Slot"
    /\ ValidSource(selected)

\* linear index of the i-th (0-based, ascending) card of the reserve
NthOfReserve(i) ==
    CHOOSE x \in deck : Cardinality({y \in deck : y < x}) = i

\* C14: for an armed Reserve(i) with i below the reserve's count, the
\* moving card is the i-th card of the reserve in ascending index order,
\* and a successful move puts that card on its destination and removes it,
\* and no other card, from the reserve.
C14_ReserveCard ==
    [][pc = "run" /\ selected.k = "Deck" /\ selected.a < Cardinality(deck) =>
          LET x == NthOfReserve(selected.a)
          IN  /\ MovingCard = from_index(x)
              /\ Succeeds =>
                    /\ deck' = deck \ {x}
                    /\ picked'.k = "Slot" =>
                          slots'[picked'.a][length(picked'.a)] = from_index(x)
                    /\ picked'.k = "Target" =>
                          targets'[x \div 13] = (x % 13) + 1]_vars

\* a card of the reserve that is not its first has been put on the column
\* picked: it lies on top of that column and has left the reserve, where
\* cards of lower index remain
C14_Witness ==
    /\ pc = "run" /\ moves = 1 /\ selected = None /\ picked.k = "Slot"
    /\ picked.a < N /\ length(picked.a) > 0
    /\ LET top == slots[picked.a][length(picked.a) - 1]
       IN  /\ Cardinality(deck) \in {23, 12}
           /\ IsCard(top) /\ to_ind(top) \notin deck
           /\ \E y \in deck : y < to_ind(top)

\* C15: from Armed(Foundation(s)) with foundations[s] = v > 0, a pick of
\* a column c on which card (s, v) is legal puts that card on top of c
\* (length one more, the card in the new top row), lowers foundations[s] to
\* v - 1, leaves hidden_count(c) unchanged and returns to Idle.
C15_FoundationToColumn ==
    [][pc = "run" /\ pc' # "quit"
         /\ selected.k = "Target" /\ targets[selected.a] > 0
         /\ picked'.k = "Slot" /\ picked'.a < N
         /\ LegalOnColumn(from_suit_rank(selected.a, targets[selected.a]),
                          picked'.a) =>
          /\ pc' = "run" /\ selected' = None
          /\ length_after(picked'.a) = length(picked'.a) + 1
          /\ slots'[picked'.a][length(picked'.a)] =
                 from_suit_rank(selected.a, targets[selected.a])
          /\ targets'[selected.a] = targets[selected.a] - 1
          /\ hidden_count_after(picked'.a) = hidden_count(picked'.a)]_vars

\* ------------------------------------------------------------------------
\* The card codec on its own: calls of Card::from_suit_rank and
\* Card::from_index with arguments of the width of their types
\* ------------------------------------------------------------------------
\* largest suit, rank and linear index a call is made with
MaxSuit == 5

MaxRank == 15

MaxIndex == 60

Calls ==
    {[NoCall EXCEPT !.fn = "from_suit_rank", !.a = s, !.b = r] :
        s \in 0..MaxSuit, r \in 0..MaxRank}
    \cup {[NoCall EXCEPT !.fn = "from_index", !.a = i] : i \in 0..MaxIndex}

\* Card::from_suit_rank(call.a, call.b): the assert!, then the packed byte
CallFromSuitRank ==
    /\ call.fn = "from_suit_rank" /\ ~call.done
    /\ call' = IF from_suit_rank_ok(call.a, call.b)
               THEN [call EXCEPT !.done = TRUE,
                                 !.card = from_suit_rank(call.a, call.b)]
               ELSE [call EXCEPT !.done = TRUE, !.panicked = TRUE]
    /\ UNCHANGED <<deck, targets, slots, slots_lens, selected, picked, pc,
                   overflow_checks, moves>>

\* Card::from_index(call.a)
CallFromIndex ==
    /\ call.fn = "from_index" /\ ~call.done
    /\ call' = IF from_index_ok(call.a)
               THEN [call EXCEPT !.done = TRUE, !.card = from_index(call.a)]
               ELSE [call EXCEPT !.done = TRUE, !.panicked = TRUE]
    /\ UNCHANGED <<deck, targets, slots, slots_lens, selected, picked, pc,
                   overflow_checks, moves>>

InitCard ==
    /\ call \in Calls
    /\ deck = {}
    /\ targets = [s \in Suits |-> 0]
    /\ slots = [j \in Cols |-> [i \in Rows |-> 0]]
    /\ slots_lens = [i \in Cols |-> 0]
    /\ selected = None
    /\ picked = None
    /\ pc = "card"
    /\ overflow_checks = "either"
    /\ moves = 0

NextCard == CallFromSuitRank \/ CallFromIndex

SpecCard == InitCard /\ [][NextCard]_vars

\* C16: Card::from_suit_rank(suit, rank) fails (assertion) for every
\* suit >= 4 and for every rank outside 1..13, rank 0 included.
C16_FailFast ==
    call.fn = "from_suit_rank" /\ call.done
      /\ (call.a >= 4 \/ call.b < 1 \/ call.b > 13)
        => call.panicked

\* C17: for every i in 0..51, from_index(i) is the card of suit i / 13 and
\* rank i % 13 + 1 (so from_index(suit * 13 + rank - 1) has that suit and
\* rank), to_ind takes it back to i, and it is red exactly for suits 1
\* and 3.
C17_Codec ==
    call.fn = "from_index" /\ call.done /\ call.a <= 51 =>
        /\ ~call.panicked
        /\ to_ind(call.card) = call.a
        /\ suit(call.card) = call.a \div 13
        /\ rank(call.card) = (call.a % 13) + 1
        /\ call.a = (suit(call.card) * 13) + rank(call.card) - 1
        /\ is_red(call.card) <=> suit(call.card) \in {1, 3}

\* the queen of hearts was built from its linear index 24
C17_Witness ==
    /\ call.fn = "from_index" /\ call.done /\ ~call.panicked
    /\ call.a = 24 /\ suit(call.card) = 1 /\ rank(call.card) = 12

\* C18: Cancel (Esc) returns the engine to Idle from Idle and from every
\* Armed state and leaves the reserve, the foundations and the columns
\* with their length and hidden counters unchanged.
C18_Cancel ==
    [][KeyEsc => pc' = "run" /\ selected' = None /\ Table' = Table]_vars

\* the engine is armed after a move was made, and Esc takes it to Idle
C18_Witness ==
    /\ pc = "run" /\ selected # None /\ moves = 1
    /\ ENABLED (KeyEsc /\ selected' = None /\ Table' = Table)

\* C19: whenever the engine is Armed(s), s is a valid source of the
\* current table.
C19_ArmedIsValidSource ==
    pc = "run" /\ selected # None => ValidSource(selected)

\* C20: a legal run move of k = length(c) - r >= 2 cards from a face-up
\* row r of column c to another column d of length L leaves d with length
\* L + k, rows L .. L+k-1 equal to the old rows r .. r+k-1 of c, rows
\* 0 .. L-1 and hidden_count unchanged, and c with length r and rows
\* 0 .. r-1 unchanged.
C20_RunMove ==
    [][pc = "run" /\ pc' # "quit"
         /\ selected.k = "Slot" /\ ValidSource(selected)
         /\ length(selected.a) - selected.b >= 2
         /\ picked'.k = "Slot" /\ picked'.a < N /\ picked'.a # selected.a
         /\ length(picked'.a) + length(selected.a) - selected.b <= MAX_HEIGHT
         /\ LegalOnColumn(slots[selected.a][selected.b], picked'.a) =>
          LET c == selected.a
              r == selected.b
              d == picked'.a
              L == length(d)
              k == length(c) - r
          IN  /\ pc' = "run"
              /\ length_after(d) = L + k
              /\ \A i \in 0..(k - 1) : slots'[d][L + i] = slots[c][r + i]
              /\ \A i \in 0..(L - 1) : slots'[d][i] = slots[d][i]
              /\ hidden_count_after(d) = hidden_count(d)
              /\ length_after(c) = r
              /\ \A i \in 0..(r - 1) : slots'[c][i] = slots[c][i]]_vars

\* C21: a legal run move from a face-up row never reads or writes a row
\* index of MAX_HEIGHT or more: its copy loop runs to the end and the
\* program runs on.
C21_CopyInBounds ==
    [][pc = "run" /\ pc' # "quit"
         /\ RunArmed /\ ValidSource(selected)
         /\ picked'.k = "Slot" /\ picked'.a < N
         /\ LegalOnColumn(slots[selected.a][selected.b], picked'.a) =>
          pc' = "run"]_vars

\* C22: while the program runs, the face-up rows of every column form a
\* descending run of alternating colour: each face-up card above the first
\* is one rank below the card under it and of the other colour.
C22_FaceUpRuns ==
    pc = "run" =>
        \A c \in Cols, r \in Rows :
            hidden_count(c) < r /\ r < length(c) =>
                /\ rank(slots[c][r]) + 1 = rank(slots[c][r - 1])
                /\ is_red(slots[c][r]) # is_red(slots[c][r - 1])

\* C23: a pick that does not end in a completed move leaves the reserve,
\* the foundations and the columns with their lengths and hidden counts as
\* they were.
C23_NoMoveNoChange ==
    [][pc = "run" /\ pc' # "quit" /\ ~Succeeds => Table' = Table]_vars

\* C24: no sequence of picks and cancels reaches a fault branch of
\* try_move: it is never entered without a source or with a None
\* destination (the panic! branches), and no move performed has a None
\* source or goes from a foundation to a foundation (the unreachable!()
\* branches).
C24_NoFaultBranch == pc # "fault"

\* try_move has performed a move to a foundation through the match on its
\* source: the ace of spades lies on its foundation after one move
C24_Witness == pc = "run" /\ moves = 1 /\ targets[0] = 1

====
